---- MODULE Spec2Model ----
(***************************************************************************)
(* Telemetry normalization and multi-driver comparison engine of           *)
(* backend/app/telemetry (data_processor.py, speed_extractor.py).          *)
(*                                                                         *)
(* Numbers.  Channel values are fixed-point tenths (27 is 2.7), so that a  *)
(* float channel keeps the value and an integer channel truncates it to    *)
(* whole units.  Durations are Timedelta cells counted in ticks of 0.1 ms; *)
(* total_seconds() strips the Timedelta and yields seconds in the same     *)
(* fixed-point ticks.                                                      *)
(***************************************************************************)
EXTENDS Integers, Sequences, FiniteSets, TLC

\* ------------------------------------------------------------------ bounds
MaxSamples == 2
MaxLaps == 2
MaxDrivers == 3

\* ------------------------------------------------------------- cell values
Num(v) == [kind |-> "num", v |-> v]
NaN == [kind |-> "nan", v |-> 0]
Td(t) == [kind |-> "td", v |-> t]
NaT == [kind |-> "nat", v |-> 0]
Bool(b) == [kind |-> "bool", v |-> b]
\* A string cell: v indexes StrValues
Str(k) == [kind |-> "str", v |-> k]
StrValues == <<"n/a", "SOFT", "MEDIUM", "HARD">>
Bad == Str(1)
\* str(x) of a string cell
str(c) == StrValues[c.v]
Absent == [kind |-> "absent", v |-> 0]

None == [some |-> FALSE]
Some(x) == [some |-> TRUE, val |-> x]

Ok(x) == [raised |-> FALSE, val |-> x]
Raise == [raised |-> TRUE]

\* notna taking every value for present
notna_Always(c) == TRUE

\* pd.notna: false for NaN, NaT and None (what Series.get gives for an absent field)
notna(c) == c.kind \notin {"nan", "nat", "absent"}

\* hasattr(x, 'total_seconds'): Timedelta (and NaT) carry it, numbers and strings do not
has_total_seconds(c) == c.kind \in {"td", "nat"}

\* Timedelta.total_seconds(): the duration in seconds (fixed-point ticks)
total_seconds(c) == c.v

\* ------------------------------------------------------- telemetry tables
FloatChannels == {"Distance", "Speed", "Throttle", "Brake"}
OptionalChannels == {"RPM", "DRS"}
Channels == FloatChannels \cup {"nGear"} \cup OptionalChannels

\* A table: n rows; cols maps each column present to its n cells;
\* distance_added is what Telemetry.add_distance() computes for it.
Table(n, cols, da) == [n |-> n, cols |-> cols, distance_added |-> da]

columns(df) == DOMAIN df.cols

\* DataFrame.empty: no rows or no columns
empty(df) == df.n = 0 \/ columns(df) = {}

\* ------------------------------------------------- Safe Series Extractor
\* Series.fillna(0): a new series, the missing cells replaced by 0
fillna(series) ==
    [i \in DOMAIN series |-> IF series[i].kind \in {"nan", "nat"} THEN Num(0) ELSE series[i]]

\* int(x) of a float in tenths: truncation toward zero, to whole units
TruncInt(v) == IF v >= 0 THEN v \div 10 ELSE -((-v) \div 10)

\* Series.astype(float).tolist(): fails on a cell that is no number
astype_float(series) ==
    IF \E i \in DOMAIN series : series[i].kind # "num"
    THEN Raise
    ELSE Ok([i \in DOMAIN series |-> series[i].v])

\* astype(int) rounding to the nearest integer instead of truncating
astype_int_Rounds(series) ==
    IF \E i \in DOMAIN series : series[i].kind # "num"
    THEN Raise
    ELSE Ok([i \in DOMAIN series |-> (series[i].v + 5) \div 10])

\* Series.astype(int).tolist()
astype_int(series) ==
    IF \E i \in DOMAIN series : series[i].kind # "num"
    THEN Raise
    ELSE Ok([i \in DOMAIN series |-> TruncInt(series[i].v)])

\* The table after safe_to_list: line 131 rebinds the local name to the filled
\* copy, the table's own column is not written
TableAfterSafeToList(telemetry_df, column_name) == telemetry_df

safe_to_list(telemetry_df, column_name, dtype) ==
    IF column_name \in columns(telemetry_df)
    THEN LET series == fillna(telemetry_df.cols[column_name])
         IN  IF dtype = "int" THEN astype_int(series) ELSE astype_float(series)
    ELSE Ok(<<>>)

\* ------------------------------------------------ Single-lap pipeline
\* TimeList with an empty table tolerated: no time_data.iloc[0] on an empty column
TimeList_EmptyOk(telemetry_df) ==
    IF "Time" \notin columns(telemetry_df)
    THEN Raise
    ELSE LET time_data == telemetry_df.cols["Time"]
         IN  IF Len(time_data) = 0
             THEN Ok(<<>>)
             ELSE Ok([i \in DOMAIN time_data |-> time_data[i].v - time_data[1].v])

\* TimeList without the re-basing of lines 145-147
TimeList_NoRebase(telemetry_df) ==
    IF "Time" \notin columns(telemetry_df)
    THEN Raise
    ELSE LET time_data == telemetry_df.cols["Time"]
         IN  IF Len(time_data) = 0
             THEN Raise
             ELSE Ok([i \in DOMAIN time_data |-> time_data[i].v])

\* Lines 138-147: the time sequence, re-based to its first element
TimeList(telemetry_df) ==
    IF "Time" \notin columns(telemetry_df)
    THEN Raise                      \* telemetry_df.index has no .iloc
    ELSE LET time_data == telemetry_df.cols["Time"]
         IN  IF Len(time_data) = 0
             THEN Raise             \* time_data.iloc[0] on an empty column
             ELSE LET time_list ==
                        IF has_total_seconds(time_data[1])
                        THEN [i \in DOMAIN time_data |-> total_seconds(time_data[i])]
                        ELSE [i \in DOMAIN time_data |-> time_data[i].v]
                      start_time == time_list[1]
                  IN  Ok([i \in DOMAIN time_list |-> time_list[i] - start_time])

\* OptionalChannel without the "in columns" test of lines 156-157
OptionalChannel_AlwaysList(telemetry_df, column_name, dtype) ==
    LET r == safe_to_list(telemetry_df, column_name, dtype)
    IN  IF r.raised THEN Raise ELSE Ok(Some(r.val))

OptionalChannel(telemetry_df, column_name, dtype) ==
    IF column_name \in columns(telemetry_df)
    THEN LET r == safe_to_list(telemetry_df, column_name, dtype)
         IN  IF r.raised THEN Raise ELSE Ok(Some(r.val))
    ELSE Ok(None)

_process_telemetry_dataframe(telemetry_df) ==
    LET time     == TimeList(telemetry_df)
        distance == safe_to_list(telemetry_df, "Distance", "float")
        speed    == safe_to_list(telemetry_df, "Speed", "float")
        throttle == safe_to_list(telemetry_df, "Throttle", "float")
        brake    == safe_to_list(telemetry_df, "Brake", "float")
        gear     == safe_to_list(telemetry_df, "nGear", "int")
        rpm      == OptionalChannel(telemetry_df, "RPM", "float")
        drs      == OptionalChannel(telemetry_df, "DRS", "int")
    IN  IF \/ time.raised \/ distance.raised \/ speed.raised \/ throttle.raised
           \/ brake.raised \/ gear.raised \/ rpm.raised \/ drs.raised
        THEN Raise
        ELSE Ok([time |-> time.val, distance |-> distance.val, speed |-> speed.val,
                 throttle |-> throttle.val, brake |-> brake.val, gear |-> gear.val,
                 rpm |-> rpm.val, drs |-> drs.val])

\* ------------------------------------------------ Lap Metadata Extractor
\* pandas counts nanoseconds; the model counts ticks of 0.1 ms
TicksPerSecond == 10000

\* f"{seconds:06.3f}": the seconds rounded to milliseconds
RoundMs(ticks) == (ticks + 5) \div 10

\* f"{minutes}:{seconds:06.3f}" as the fields it prints: M, SS and mmm
FormatLapTime(lap_time_seconds) ==
    LET minutes == lap_time_seconds \div (60 * TicksPerSecond)
        seconds == lap_time_seconds % (60 * TicksPerSecond)
        ms      == RoundMs(seconds)
    IN  [minutes |-> minutes, ss |-> ms \div 1000, mmm |-> ms % 1000]

\* Lines 88-90: one sector, converted on its own
SectorTime(sector) ==
    IF notna(sector) /\ has_total_seconds(sector) THEN Some(total_seconds(sector)) ELSE None

\* bool(lap.get('IsPersonalBest', False)): bool(nan) is True
PersonalBest(flag) ==
    CASE flag.kind = "absent" -> FALSE
      [] flag.kind = "bool"   -> flag.v
      [] OTHER                -> TRUE

\* LapNumberInt with lap number 0 for a lap number that does not convert
LapNumberInt_Default(lap) ==
    IF lap.LapNumber.kind = "num" THEN Ok(lap.LapNumber.v) ELSE Ok(0)

\* int(lap['LapNumber']) fails on a missing or non-numeric lap number
LapNumberInt(lap) ==
    IF lap.LapNumber.kind = "num" THEN Ok(lap.LapNumber.v) ELSE Raise

_extract_lap_metadata(lap, driver) ==
    LET lap_time == lap.LapTime
        timed    == notna(lap_time) /\ has_total_seconds(lap_time)
        number   == LapNumberInt(lap)
    IN  IF number.raised
        THEN Raise
        ELSE Ok([lap_number       |-> number.val,
                 driver           |-> driver,
                 lap_time_seconds |-> IF timed THEN Some(total_seconds(lap_time)) ELSE None,
                 lap_time_str     |-> IF timed THEN Some(FormatLapTime(total_seconds(lap_time)))
                                               ELSE None,
                 sector_1_time    |-> SectorTime(lap.Sector1Time),
                 sector_2_time    |-> SectorTime(lap.Sector2Time),
                 sector_3_time    |-> SectorTime(lap.Sector3Time),
                 compound         |-> IF notna(lap.Compound) THEN Some(str(lap.Compound)) ELSE None,
                 is_personal_best |-> PersonalBest(lap.IsPersonalBest)])

\* ------------------------------------------------ Session provider
\* f1_session.laps.pick_driver(driver): the driver's laps, in table order
pick_driver(f1_session, driver) ==
    IF driver \in DOMAIN f1_session.laps THEN f1_session.laps[driver] ELSE <<>>

\* lap.get_telemetry(): the lap's table, or a failure
get_telemetry(lap) == lap.telemetry

\* driver_laps[driver_laps['LapNumber'] == lap_number]
LapsNumbered(driver_laps, lap_number) ==
    SelectSeq(driver_laps, LAMBDA l : l.LapNumber.kind = "num" /\ l.LapNumber.v = lap_number)

\* ------------------------------------------------ extract_lap_telemetry
LapResult(meta, telemetry) == [raised |-> FALSE, lap_meta |-> meta, telemetry |-> telemetry]
LapRaised == [raised |-> TRUE, lap_meta |-> None, telemetry |-> None]

\* Lines 53-58: the inner try; any failure in it yields "no telemetry"
LapTelemetryOrNone(lap) ==
    LET telemetry_df == get_telemetry(lap)
    IN  IF telemetry_df.raised
        THEN None
        ELSE LET telemetry_data == _process_telemetry_dataframe(telemetry_df.val)
             IN  IF telemetry_data.raised THEN None ELSE Some(telemetry_data.val)

\* extract_lap_telemetry without the lap.empty test of lines 43-45:
\* lap.iloc[0] then fails on an empty selection
extract_lap_telemetry_NoEmptyTest(f1_session, driver, lap_number) ==
    LET driver_laps == pick_driver(f1_session, driver)
        laps        == LapsNumbered(driver_laps, lap_number)
    IN  IF Len(driver_laps) = 0 THEN LapResult(None, None)
        ELSE IF Len(laps) = 0 THEN LapRaised
        ELSE LET lap      == laps[1]
                 lap_meta == _extract_lap_metadata(lap, driver)
             IN  IF lap_meta.raised
                 THEN LapRaised
                 ELSE LapResult(Some(lap_meta.val), LapTelemetryOrNone(lap))

extract_lap_telemetry(f1_session, driver, lap_number) ==
    LET driver_laps == pick_driver(f1_session, driver)
        laps        == LapsNumbered(driver_laps, lap_number)
    IN  IF Len(driver_laps) = 0 THEN LapResult(None, None)
        ELSE IF Len(laps) = 0 THEN LapResult(None, None)
        ELSE LET lap      == laps[1]
                 lap_meta == _extract_lap_metadata(lap, driver)
             IN  IF lap_meta.raised
                 THEN LapRaised
                 ELSE LapResult(Some(lap_meta.val), LapTelemetryOrNone(lap))

\* ------------------------------------------------ Display colour
\* Strings that are searched or built are sequences of characters
LowerOf ==
    ("A" :> "a") @@ ("B" :> "b") @@ ("C" :> "c") @@ ("D" :> "d") @@ ("E" :> "e") @@ ("F" :> "f") @@ ("G" :> "g") @@ ("H" :> "h") @@ ("I" :> "i") @@ ("J" :> "j") @@ ("K" :> "k") @@ ("L" :> "l") @@ ("M" :> "m") @@ ("N" :> "n") @@ ("O" :> "o") @@ ("P" :> "p") @@ ("Q" :> "q") @@ ("R" :> "r") @@ ("S" :> "s") @@ ("T" :> "t") @@ ("U" :> "u") @@ ("V" :> "v") @@ ("W" :> "w") @@ ("X" :> "x") @@ ("Y" :> "y") @@ ("Z" :> "z")

\* str.lower()
lower(text) == [i \in DOMAIN text |-> IF text[i] \in DOMAIN LowerOf THEN LowerOf[text[i]] ELSE text[i]]

\* `key in text`: key occurs in text as a contiguous substring
Contains(text, key) ==
    \E k \in 0..(Len(text) - Len(key)) : \A i \in 1..Len(key) : text[k + i] = key[i]

\* The table of lines 208-222, in the order the dict is iterated
team_colors ==
    <<<<<<"r", "e", "d", " ", "b", "u", "l", "l", " ", "r", "a", "c", "i", "n", "g">>, <<"#", "1", "E", "5", "F", "6", "3">>>>,
      <<<<"f", "e", "r", "r", "a", "r", "i">>, <<"#", "D", "C", "0", "0", "0", "0">>>>,
      <<<<"m", "e", "r", "c", "e", "d", "e", "s">>, <<"#", "0", "0", "D", "2", "B", "E">>>>,
      <<<<"m", "c", "l", "a", "r", "e", "n">>, <<"#", "F", "F", "8", "7", "0", "0">>>>,
      <<<<"a", "s", "t", "o", "n", " ", "m", "a", "r", "t", "i", "n">>, <<"#", "0", "0", "6", "F", "6", "2">>>>,
      <<<<"a", "l", "p", "i", "n", "e">>, <<"#", "0", "0", "9", "0", "F", "F">>>>,
      <<<<"w", "i", "l", "l", "i", "a", "m", "s">>, <<"#", "0", "0", "5", "A", "F", "F">>>>,
      <<<<"a", "l", "p", "h", "a", "t", "a", "u", "r", "i">>, <<"#", "2", "B", "4", "5", "6", "2">>>>,
      <<<<"r", "b">>, <<"#", "2", "B", "4", "5", "6", "2">>>>,
      <<<<"a", "l", "f", "a", " ", "r", "o", "m", "e", "o">>, <<"#", "9", "0", "0", "0", "0", "0">>>>,
      <<<<"h", "a", "a", "s">>, <<"#", "F", "F", "F", "F", "F", "F">>>>,
      <<<<"s", "a", "u", "b", "e", "r">>, <<"#", "0", "0", "E", "7", "0", "1">>>>,
      <<<<"k", "i", "c", "k", " ", "s", "a", "u", "b", "e", "r">>, <<"#", "0", "0", "E", "7", "0", "1">>>>>>

HexDigits == <<"0", "1", "2", "3", "4", "5", "6", "7", "8", "9", "a", "b", "c", "d", "e", "f">>

\* f"#{n:06x}": '#' and n in hexadecimal, zero-padded to at least six digits
RECURSIVE HexOf(_, _)
HexOf(n, width) ==
    IF n < 16 /\ width <= 1
    THEN <<HexDigits[n + 1]>>
    ELSE Append(HexOf(n \div 16, width - 1), HexDigits[(n % 16) + 1])

\* hash(driver): fixed within one process, keyed by the process's hash seed
DriverCodeNumber ==
    [VER |-> 220518, LEC |-> 120503, NOR |-> 141518, HAM |-> 80113,
     SAI |-> 190109, ALO |-> 11215, RUS |-> 182119, PIA |-> 160901]

PyHash(seed, driver) == ((seed * 1000003 + DriverCodeNumber[driver]) % 2147483647) - 1073741824

\* FirstMatch taking the last key of the table contained in the team name
FirstMatch_Last(team_lower) ==
    LET hits == {k \in DOMAIN team_colors : Contains(team_lower, team_colors[k][1])}
    IN  IF hits = {} THEN 0 ELSE CHOOSE k \in hits : \A j \in hits : k >= j

\* Lines 225-227: the first key of the table contained in the lowered team name
FirstMatch(team_lower) ==
    LET hits == {k \in DOMAIN team_colors : Contains(team_lower, team_colors[k][1])}
    IN  IF hits = {} THEN 0 ELSE CHOOSE k \in hits : \A j \in hits : k <= j

_get_team_color(team, driver, seed) ==
    LET k == FirstMatch(lower(team))
    IN  IF k # 0 THEN team_colors[k][2]
        ELSE <<"#">> \o HexOf(PyHash(seed, driver) % 16777215, 6)

\* ------------------------------------------------ Delta curve
\* Rationals num/den with den > 0
Rat(num, den) == [num |-> num, den |-> den]

RatSub(a, b) == Rat(a.num * b.den - b.num * a.den, a.den * b.den)

\* linspace without its end point: point i (from 0) is stop * i / num
linspace_Exclusive(stop, num) == [i \in 1..num |-> Rat(stop * (i - 1), num)]

\* np.linspace(0, stop, num): point i (from 0) is stop * i / (num - 1)
linspace(stop, num) == [i \in 1..num |-> Rat(stop * (i - 1), num - 1)]

\* numpy's search for the segment of x in xp (linear for up to four points):
\* 0 left of xp[1], Len(xp) + 1 right of xp[Len(xp)], else the last j reached
\* while x >= xp[j + 1]
RECURSIVE SearchFrom(_, _, _)
SearchFrom(x, xp, j) ==
    IF j < Len(xp) /\ x.num >= xp[j + 1] * x.den THEN SearchFrom(x, xp, j + 1) ELSE j

Segment(x, xp) ==
    IF x.num > xp[Len(xp)] * x.den THEN Len(xp) + 1
    ELSE IF x.num < xp[1] * x.den THEN 0
    ELSE SearchFrom(x, xp, 1)

\* InterpAt continuing the last segment's line to the right of xp[n]
InterpAt_Extrapolates(x, xp, fp) ==
    LET n == Len(xp)
        j == Segment(x, xp)
    IN  IF j = 0 THEN Rat(fp[1], 1)
        ELSE IF j >= n /\ n = 1 THEN Rat(fp[n], 1)
        ELSE LET k  == IF j >= n THEN n - 1 ELSE j
                 dx == xp[k + 1] - xp[k]
             IN  Rat(fp[k] * dx * x.den + (fp[k + 1] - fp[k]) * (x.num - xp[k] * x.den),
                     dx * x.den)

\* np.interp at one point: boundary values outside [xp[1], xp[n]], linear inside
InterpAt(x, xp, fp) ==
    LET j == Segment(x, xp)
    IN  IF j = 0 THEN Rat(fp[1], 1)
        ELSE IF j = Len(xp) + 1 THEN Rat(fp[Len(xp)], 1)
        ELSE IF j = Len(xp) THEN Rat(fp[j], 1)
        ELSE IF xp[j] * x.den = x.num THEN Rat(fp[j], 1)
        ELSE LET dx == xp[j + 1] - xp[j]
             IN  Rat(fp[j] * dx * x.den + (fp[j + 1] - fp[j]) * (x.num - xp[j] * x.den),
                     dx * x.den)

\* np.interp fails on an empty xp, on xp and fp of different length and on
\* values that do not convert to float
CanInterp(xp, fp) ==
    /\ Len(xp) > 0
    /\ Len(xp) = Len(fp)
    /\ \A i \in DOMAIN xp : xp[i].kind # "str" /\ fp[i].kind # "str"

\* The numbers of a column (the sessions modelled hold no missing distance or speed)
Values(series) == [i \in DOMAIN series |-> series[i].v]

num_points == 200

\* _calculate_delta failing on every input: the handler of lines 191-193 returns None
_calculate_delta_AlwaysNone(trace1, trace2, max_dist) == None

_calculate_delta(trace1, trace2, max_dist) ==
    IF ~CanInterp(trace1.distance, trace1.speed) \/ ~CanInterp(trace2.distance, trace2.speed)
    THEN None
    ELSE LET common_distance == linspace(max_dist, num_points)
             speed1_interp == [i \in 1..num_points |->
                                  InterpAt(common_distance[i], Values(trace1.distance),
                                           Values(trace1.speed))]
             speed2_interp == [i \in 1..num_points |->
                                  InterpAt(common_distance[i], Values(trace2.distance),
                                           Values(trace2.speed))]
         IN  Some([distance |-> common_distance,
                   delta    |-> [i \in 1..num_points |-> RatSub(speed1_interp[i], speed2_interp[i])],
                   driver1  |-> trace1.driver,
                   driver2  |-> trace2.driver])

\* ------------------------------------------------ Lap Selection Policy
\* driver_laps[driver_laps['LapTime'].notna()]
ValidLaps(driver_laps) == SelectSeq(driver_laps, LAMBDA l : notna(l.LapTime))

\* idxmin taking the last position holding the minimum
idxmin_Last(laps) ==
    CHOOSE i \in DOMAIN laps :
        /\ \A j \in DOMAIN laps : laps[i].LapTime.v <= laps[j].LapTime.v
        /\ \A j \in (i + 1)..Len(laps) : laps[j].LapTime.v > laps[i].LapTime.v

\* Series.idxmin(): the first position holding the minimum
idxmin(laps) ==
    CHOOSE i \in DOMAIN laps :
        /\ \A j \in DOMAIN laps : laps[i].LapTime.v <= laps[j].LapTime.v
        /\ \A j \in 1..(i - 1) : laps[j].LapTime.v > laps[i].LapTime.v

\* SelectLap falling back to the fastest lap when the lap number is not found
SelectLap_FallsBack(driver_laps, lap_number, lap_type) ==
    LET valid_laps == ValidLaps(driver_laps)
        fastest == IF Len(valid_laps) = 0 THEN None ELSE Some(valid_laps[idxmin(valid_laps)])
    IN  IF lap_number.some
        THEN LET lap == LapsNumbered(driver_laps, lap_number.val)
             IN  IF Len(lap) = 0 THEN fastest ELSE Some(lap[1])
        ELSE IF lap_type = "fastest" THEN fastest
        ELSE Some(driver_laps[1])

\* SelectLap whose default is the first lap that has a lap time
SelectLap_FirstTimed(driver_laps, lap_number, lap_type) ==
    LET valid_laps == ValidLaps(driver_laps)
    IN  IF lap_number.some
        THEN LET lap == LapsNumbered(driver_laps, lap_number.val)
             IN  IF Len(lap) = 0 THEN None ELSE Some(lap[1])
        ELSE IF lap_type = "fastest"
        THEN IF Len(valid_laps) = 0 THEN None ELSE Some(valid_laps[idxmin(valid_laps)])
        ELSE IF Len(valid_laps) = 0 THEN None ELSE Some(valid_laps[1])

\* Lines 46-66: the lap chosen for a driver with laps, or none
SelectLap(driver_laps, lap_number, lap_type) ==
    IF lap_number.some
    THEN LET lap == LapsNumbered(driver_laps, lap_number.val)
         IN  IF Len(lap) = 0 THEN None ELSE Some(lap[1])
    ELSE IF lap_type = "fastest"
    THEN LET valid_laps == ValidLaps(driver_laps)
         IN  IF Len(valid_laps) = 0 THEN None ELSE Some(valid_laps[idxmin(valid_laps)])
    ELSE Some(driver_laps[1])

\* ------------------------------------------------ extract_speed_traces
\* Telemetry.add_distance(): the table with its Distance column recomputed
add_distance(telemetry) ==
    IF telemetry.distance_added.raised
    THEN Raise
    ELSE Ok([telemetry EXCEPT
               !.cols = [c \in columns(telemetry) \cup {"Distance"} |->
                            IF c = "Distance" THEN telemetry.distance_added.val
                            ELSE telemetry.cols[c]]])

\* f1_session.get_driver(driver).get('TeamName', 'Unknown')
get_team(f1_session, driver) ==
    IF driver \in DOMAIN f1_session.teams THEN f1_session.teams[driver] ELSE Raise

\* Lines 93-94: max(max_distance, distance[-1]); a NaN never wins the comparison
TrackMax(max_dist, distance) ==
    IF Len(distance) > 0 /\ distance[Len(distance)].kind = "num"
                         /\ distance[Len(distance)].v > max_dist
    THEN distance[Len(distance)].v
    ELSE max_dist

Skip(max_dist) == [status |-> "skip", max_distance |-> max_dist]
Error(max_dist) == [status |-> "error", max_distance |-> max_dist]

\* Lines 37-117: one iteration of the loop.  status is "ok" with the trace to
\* append, "skip" for a `continue` of lines 43-81, "error" for an exception
\* reaching the handler of line 115
DriverStep(f1_session, driver, lap_number, lap_type, max_dist, seed) ==
    LET driver_laps == pick_driver(f1_session, driver)
    IN  IF Len(driver_laps) = 0 THEN Skip(max_dist) ELSE
        LET selected == SelectLap(driver_laps, lap_number, lap_type)
        IN  IF ~selected.some THEN Skip(max_dist) ELSE
        LET lap     == selected.val
            fetched == get_telemetry(lap)
        IN  IF fetched.raised THEN Skip(max_dist) ELSE
            IF empty(fetched.val) THEN Skip(max_dist) ELSE
        LET added == add_distance(fetched.val)
        IN  IF added.raised THEN Error(max_dist) ELSE
        LET telemetry == added.val
        IN  IF ~({"Distance", "Speed", "Throttle", "Brake"} \subseteq columns(telemetry))
            THEN Error(max_dist) ELSE
        LET distance == telemetry.cols["Distance"]
            new_max  == TrackMax(max_dist, distance)
            lap_time == lap.LapTime
            team     == get_team(f1_session, driver)
            number   == LapNumberInt(lap)
        IN  IF team.raised \/ number.raised THEN Error(new_max) ELSE
            [status |-> "ok", max_distance |-> new_max,
             trace |-> [driver     |-> driver,
                        team       |-> team.val,
                        lap_number |-> number.val,
                        lap_time   |-> IF notna(lap_time) /\ has_total_seconds(lap_time)
                                       THEN Some(total_seconds(lap_time)) ELSE None,
                        distance   |-> distance,
                        speed      |-> telemetry.cols["Speed"],
                        throttle   |-> telemetry.cols["Throttle"],
                        brake      |-> telemetry.cols["Brake"],
                        color      |-> _get_team_color(team.val, driver, seed)]]

\* What the loop does with an iteration: an exception is caught at line 115
DriverOutcome_ErrorAborts(step) ==
    CASE step.status = "ok"    -> "append"
      [] step.status = "error" -> "raise"
      [] OTHER                 -> "continue"

DriverOutcome(step) == IF step.status = "ok" THEN "append" ELSE "continue"

\* Lines 126-129 with the test widened to "at least two traces"
DeltaFor_AtLeastTwo(trace_list, max_dist) ==
    IF Len(trace_list) >= 2 THEN _calculate_delta(trace_list[1], trace_list[2], max_dist) ELSE None

\* Lines 126-129 with the two traces handed over in the other order
DeltaFor_Swapped(trace_list, max_dist) ==
    IF Len(trace_list) = 2 THEN _calculate_delta(trace_list[2], trace_list[1], max_dist) ELSE None

\* Lines 126-129: a delta for exactly two traces
DeltaFor(trace_list, max_dist) ==
    IF Len(trace_list) = 2 THEN _calculate_delta(trace_list[1], trace_list[2], max_dist) ELSE None

\* f1_session.get_circuit_info(): corners and rotation, None, or a failure
CircuitInfo(f1_session) ==
    IF f1_session.circuit.raised THEN None ELSE f1_session.circuit.val

\* SpeedResult without the `if not traces` branch of lines 119-124
SpeedResult_NoEmptyCase(f1_session, trace_list, max_dist) ==
    [raised |-> FALSE, traces |-> trace_list, max_distance |-> max_dist,
     delta |-> DeltaFor(trace_list, max_dist),
     circuit_info |-> CircuitInfo(f1_session),
     session_info |-> f1_session.event]

\* Lines 119-153: the result built after the loop
SpeedResult(f1_session, trace_list, max_dist) ==
    IF Len(trace_list) = 0
    THEN [raised |-> FALSE, traces |-> <<>>, max_distance |-> 0,
          error |-> "No telemetry data available for selected drivers"]
    ELSE [raised |-> FALSE, traces |-> trace_list, max_distance |-> max_dist,
          delta |-> DeltaFor(trace_list, max_dist),
          circuit_info |-> CircuitInfo(f1_session),
          session_info |-> f1_session.event]

SpeedRaised == [raised |-> TRUE]

\* ------------------------------------------------ inputs
VARIABLES args, pc, result, idx, traces, max_distance

vars == <<args, pc, result, idx, traces, max_distance>>

\* Cells a channel column is drawn from: missing, non-numeric, -1.5 and 2.7
Cells == {NaN, Bad, Num(-15), Num(27)}

ChannelBase ==
    [Distance |-> 100, Speed |-> 2000, Throttle |-> 900, Brake |-> 300,
     nGear |-> 40, RPM |-> 7000, DRS |-> 0]

CleanColumn(ch, n, shift) == [i \in 1..n |-> Num(ChannelBase[ch] + 10 * i + 10 * shift)]

\* Session-relative timestamps, as Timedelta or as plain numbers
TimeColumns(n) ==
    {[i \in 1..n |-> IF dur THEN Td(start + step * (i - 1)) ELSE Num(start + step * (i - 1))] :
        start \in {0, 1234567}, step \in {2500}, dur \in BOOLEAN}

\* The table with every channel in `present` clean, channel ch replaced by col
\* (None: dropped) and the Time column time (None: dropped)
MkTable(n, time, present, ch, col) ==
    LET chans == IF col.some THEN present \cup {ch} ELSE present \ {ch}
        names == IF time.some THEN chans \cup {"Time"} ELSE chans
    IN  Table(n,
              [c \in names |-> IF c = "Time" THEN time.val
                               ELSE IF c = ch THEN col.val
                               ELSE CleanColumn(c, n, 0)],
              Raise)

CleanTable(n, shift) ==
    Table(n,
          [c \in Channels \cup {"Time"} |->
              IF c = "Time" THEN [i \in 1..n |-> Td(1000 * shift + 2500 * (i - 1))]
              ELSE CleanColumn(c, n, shift)],
          Raise)

Options(S) == {Some(x) : x \in S} \cup {None}

MkLap(number, lap_time, telemetry) ==
    [LapNumber |-> number, LapTime |-> lap_time,
     Sector1Time |-> Td(251000), Sector2Time |-> Td(302000), Sector3Time |-> Td(281560),
     Compound |-> Str(2), IsPersonalBest |-> Bool(FALSE),
     telemetry |-> telemetry]

LapKinds ==
    {MkLap(Num(k), t, Raise) : k \in 1..MaxLaps, t \in {NaT, Td(834560)}}

\* The lap at position p of a lap list carries its own table
WithTelemetry(laps) ==
    [p \in DOMAIN laps |-> [laps[p] EXCEPT !.telemetry = Ok(CleanTable(1, p))]]

Session(laps) == [laps |-> laps]

LapCall(laps, driver, lap_number) ==
    [f1_session |-> Session([d \in {"VER"} |-> laps]), driver |-> driver,
     lap_number |-> lap_number]

\* Calls over every lap list of up to MaxLaps laps
InitLapLists ==
    \E len \in 0..MaxLaps :
        \E laps \in [1..len -> LapKinds], driver \in {"VER", "HAM"}, k \in 1..(MaxLaps + 1) :
            args = LapCall(WithTelemetry(laps), driver, k)

\* Calls for one lap whose telemetry fetch fails
InitFetchFails ==
    args = LapCall(<<MkLap(Num(10), Td(834560), Raise)>>, "VER", 10)

\* Calls for one lap over every table of up to MaxSamples rows
InitTables ==
    \E n \in 0..MaxSamples :
        \E time \in Options(TimeColumns(n)), opt \in SUBSET OptionalChannels,
           ch \in Channels, col \in Options([1..n -> Cells]) :
            args = LapCall(<<MkLap(Num(10), Td(834560),
                                   Ok(MkTable(n, time, (Channels \ OptionalChannels) \cup opt,
                                              ch, col)))>>,
                           "VER", 10)

\* ------------------------------------------------ single-lap specification
NoResult == [raised |-> FALSE]

Init ==
    /\ (InitLapLists \/ InitFetchFails \/ InitTables)
    /\ pc = "call"
    /\ result = NoResult
    /\ idx = 0
    /\ traces = <<>>
    /\ max_distance = 0

ExtractLapTelemetry ==
    /\ pc = "call"
    /\ result' = extract_lap_telemetry(args.f1_session, args.driver, args.lap_number)
    /\ pc' = "done"
    /\ UNCHANGED <<args, idx, traces, max_distance>>

Next == ExtractLapTelemetry

Spec == Init /\ [][Next]_vars

\* ------------------------------------------------ single-lap properties
\* The laps of the requested driver that carry the requested lap number
RequestedLaps == LapsNumbered(pick_driver(args.f1_session, args.driver), args.lap_number)

\* The requested lap's telemetry fetch, when the lap exists
RequestedFetch == get_telemetry(RequestedLaps[1])

LapFound == Len(RequestedLaps) > 0
TableFetched == LapFound /\ ~RequestedFetch.raised
RawTable == RequestedFetch.val

\* Malformed channel data: a non-numeric cell in one of the table's channels
Malformed(df) ==
    \E c \in columns(df) \cap Channels : \E i \in DOMAIN df.cols[c] : df.cols[c][i].kind = "str"

\* C1: when the session has no laps for the driver, or the driver has laps but
\* none with exactly the requested lap number, extract_lap_telemetry returns
\* (None, None) without raising: neither a summary nor telemetry is produced.
C1_NotFoundIsNullPair ==
    (pc = "done" /\ ~LapFound) =>
        (~result.raised /\ ~result.lap_meta.some /\ ~result.telemetry.some)

C1_Witness ==
    /\ pc = "done"
    /\ Len(pick_driver(args.f1_session, args.driver)) > 0
    /\ ~LapFound
    /\ ~result.raised /\ ~result.lap_meta.some /\ ~result.telemetry.some

\* C2: for a lap that is found, if fetching its telemetry table fails or the
\* fetched table is empty, the result is (LapSummary, None): the summary is
\* returned, the telemetry is None, and nothing is raised.
C2_NoTelemetryKeepsSummary ==
    (pc = "done" /\ LapFound /\ (RequestedFetch.raised \/ empty(RawTable))) =>
        (~result.raised /\ result.lap_meta.some /\ ~result.telemetry.some)

C2_Witness ==
    /\ pc = "done"
    /\ TableFetched /\ RawTable.n = 0 /\ "Time" \in columns(RawTable)
    /\ ~result.raised /\ result.lap_meta.some /\ ~result.telemetry.some

\* C3: when the table is fetched and non-empty but holds malformed channel data,
\* extract_lap_telemetry raises to its caller and never returns (LapSummary, None).
C3_MalformedRaises ==
    (pc = "done" /\ TableFetched /\ ~empty(RawTable) /\ Malformed(RawTable)) => result.raised

\* C4: every telemetry produced has all its present sequences of one length, the
\* number of rows of the source table, also for tables lacking some channel.
C4_EqualLengths ==
    (pc = "done" /\ result.telemetry.some) =>
        LET t == result.telemetry.val
        IN  /\ \A s \in {t.time, t.distance, t.speed, t.throttle, t.brake, t.gear} :
                  Len(s) = RawTable.n
            /\ t.rpm.some => Len(t.rpm.val) = RawTable.n
            /\ t.drs.some => Len(t.drs.val) = RawTable.n

\* C5: for every non-empty table the time sequence of the telemetry produced
\* starts at exactly 0 and its element i is raw timestamp i minus raw timestamp 0.
C5_TimeRebased ==
    (pc = "done" /\ result.telemetry.some /\ RawTable.n > 0) =>
        LET time == result.telemetry.val.time
            raw  == RawTable.cols["Time"]
        IN  /\ Len(time) = RawTable.n
            /\ time[1] = 0
            /\ \A i \in 1..RawTable.n : time[i] = raw[i].v - raw[1].v

C5_Witness ==
    /\ pc = "done" /\ TableFetched /\ result.telemetry.some
    /\ RawTable.n >= 2
    /\ RawTable.cols["Time"][1].v > 0
    /\ result.telemetry.val.time[2] > 0

\* C6: an optional channel (RPM, DRS) absent from the table gives None, never a
\* list; one present gives a list with one value per row.
C6_OptionalChannels ==
    (pc = "done" /\ result.telemetry.some) =>
        LET t == result.telemetry.val
            field == [RPM |-> t.rpm, DRS |-> t.drs]
        IN  \A c \in OptionalChannels :
                /\ c \notin columns(RawTable) => ~field[c].some
                /\ c \in columns(RawTable) =>
                       (field[c].some /\ Len(field[c].val) = RawTable.n)

C6_Witness ==
    /\ pc = "done" /\ TableFetched /\ result.telemetry.some
    /\ RawTable.n > 0
    /\ "RPM" \notin columns(RawTable) /\ "DRS" \in columns(RawTable)
    /\ ~result.telemetry.val.rpm.some /\ result.telemetry.val.drs.some

\* ------------------------------------------------ Safe Series Extractor specification
\* safe_to_list on one column of a table, every channel name and both kinds
InitSeries ==
    /\ \E n \in 0..MaxSamples :
           \E ch \in Channels, col \in Options([1..n -> Cells]),
              column_name \in Channels, dtype \in {"float", "int"} :
               args = [telemetry_df |-> MkTable(n, None, Channels \ OptionalChannels, ch, col),
                       column_name |-> column_name, dtype |-> dtype]
    /\ pc = "call"
    /\ result = NoResult
    /\ idx = 0
    /\ traces = <<>>
    /\ max_distance = 0

SafeToList ==
    /\ pc = "call"
    /\ result' = [out |-> safe_to_list(args.telemetry_df, args.column_name, args.dtype),
                  telemetry_df |-> TableAfterSafeToList(args.telemetry_df, args.column_name)]
    /\ pc' = "done"
    /\ UNCHANGED <<args, idx, traces, max_distance>>

NextSeries == SafeToList

SpecSeries == InitSeries /\ [][NextSeries]_vars

\* A column of numbers and missing values only
Numeric(series) == \A i \in DOMAIN series : series[i].kind \in {"num", "nan"}

\* q is v (in tenths) truncated toward zero
TruncatedTowardZero(q, v) ==
    /\ v >= 0 => (10 * q <= v /\ v < 10 * q + 10)
    /\ v < 0  => (10 * q >= v /\ v > 10 * q - 10)

\* C7: safe_to_list returns the empty sequence for an absent channel; for a present
\* (numeric) channel one entry per row, every missing value 0 and every other
\* value kept, integer channels truncated toward zero; the table is not modified.
C7_SafeToList ==
    pc = "done" =>
        LET df == args.telemetry_df
            c  == args.column_name
        IN  /\ result.telemetry_df = df
            /\ c \notin columns(df) => (~result.out.raised /\ result.out.val = <<>>)
            /\ (c \in columns(df) /\ Numeric(df.cols[c])) =>
                   /\ ~result.out.raised
                   /\ Len(result.out.val) = df.n
                   /\ \A i \in 1..df.n :
                          LET cell == df.cols[c][i]
                              out  == result.out.val[i]
                          IN  /\ cell.kind = "nan" => out = 0
                              /\ (cell.kind = "num" /\ args.dtype = "float") => out = cell.v
                              /\ (cell.kind = "num" /\ args.dtype = "int") =>
                                     TruncatedTowardZero(out, cell.v)

C7_Witness ==
    /\ pc = "done"
    /\ args.dtype = "int" /\ args.column_name \in columns(args.telemetry_df)
    /\ args.telemetry_df.n = 2
    /\ args.telemetry_df.cols[args.column_name] = <<NaN, Num(27)>>
    /\ ~result.out.raised /\ result.out.val = <<0, 2>>



\* ------------------------------------------------ speed-trace specification
\* A lap's table for the aligner: n rows, the distances add_distance() computes
\* and the speeds
TraceTable(dist, speed) ==
    Table(Len(dist),
          [c \in Channels \cup {"Time"} |->
              IF c = "Time" THEN [i \in 1..Len(dist) |-> Td(2500 * i)]
              ELSE IF c = "Distance" THEN [i \in 1..Len(dist) |-> Num(dist[i])]
              ELSE IF c = "Speed" THEN [i \in 1..Len(dist) |-> Num(speed[i])]
              ELSE CleanColumn(c, Len(dist), 0)],
          Ok([i \in 1..Len(dist) |-> Num(dist[i])]))

\* The table without one of its columns; without Speed, add_distance() fails
Without(table, column) ==
    [table EXCEPT !.cols = [c \in columns(table) \ {column} |-> table.cols[c]],
                  !.distance_added = IF column = "Speed" THEN Raise ELSE @]

\* The session the aligner is called on: one driver for each way an iteration
\* can end.  HAM has no laps; NOR's laps have no lap time, and the distances
\* of its lap 2 go back from 9 to 4; LEC has no lap 2;
\* SAI's telemetry fetch fails; ALO's tables are empty; RUS's tables lack a
\* column; PIA is not among the session's results.
AlignerSession ==
    [laps |->
        [VER |-> <<MkLap(Num(1), Td(840000), Ok(TraceTable(<<0, 5, 10>>, <<2, 5, 3>>))),
                   MkLap(Num(2), Td(834560), Ok(TraceTable(<<0, 6, 11>>, <<3, 5, 4>>)))>>,
         LEC |-> <<MkLap(Num(1), Td(825000), Ok(TraceTable(<<0, 8>>, <<2, 6>>)))>>,
         NOR |-> <<MkLap(Num(1), NaT, Ok(TraceTable(<<0, 4, 9>>, <<1, 2, 3>>))),
                   MkLap(Num(2), NaT, Ok(TraceTable(<<0, 9, 4>>, <<3, 1, 2>>)))>>,
         SAI |-> <<MkLap(Num(1), Td(850000), Raise), MkLap(Num(2), Td(851000), Raise)>>,
         ALO |-> <<MkLap(Num(1), Td(860000), Ok(TraceTable(<<>>, <<>>))),
                   MkLap(Num(2), Td(861000), Ok(TraceTable(<<>>, <<>>)))>>,
         RUS |-> <<MkLap(Num(1), Td(870000),
                         Ok(Without(TraceTable(<<0, 7>>, <<2, 2>>), "Throttle"))),
                   MkLap(Num(2), Td(871000),
                         Ok(Without(TraceTable(<<0, 7>>, <<2, 2>>), "Speed")))>>,
         PIA |-> <<MkLap(Num(1), Td(880000), Ok(TraceTable(<<0, 12>>, <<4, 4>>))),
                   MkLap(Num(2), Td(881000), Ok(TraceTable(<<0, 12>>, <<4, 4>>)))>>],
     teams |->
        [VER |-> Ok(<<"R", "e", "d", " ", "B", "u", "l", "l", " ", "R", "a", "c", "i", "n", "g">>), LEC |-> Ok(<<"S", "c", "u", "d", "e", "r", "i", "a", " ", "F", "e", "r", "r", "a", "r", "i">>), NOR |-> Ok(<<"M", "c", "L", "a", "r", "e", "n">>),
         SAI |-> Ok(<<"W", "i", "l", "l", "i", "a", "m", "s">>), ALO |-> Ok(<<"A", "s", "t", "o", "n", " ", "M", "a", "r", "t", "i", "n">>), RUS |-> Ok(<<"M", "e", "r", "c", "e", "d", "e", "s">>),
         HAM |-> Ok(<<"R", "a", "c", "i", "n", "g", " ", "B", "u", "l", "l", "s">>)],
     circuit |-> Ok(Some([corners |-> <<[Number |-> 1, Distance |-> 3]>>, rotation |-> 42])),
     event |-> [year |-> 2024, gp |-> "Monaco Grand Prix", session |-> "Race"]]

DriverCodes == {"VER", "LEC", "NOR", "HAM", "SAI", "ALO", "RUS", "PIA"}

InitTraces ==
    /\ \E len \in 0..MaxDrivers :
           \E drivers \in [1..len -> DriverCodes],
              lap_number \in {None, Some(2)}, lap_type \in {"fastest", "first"} :
               args = [drivers |-> drivers, lap_number |-> lap_number, lap_type |-> lap_type,
                       hash_seed |-> 7]
    /\ pc = "loop"
    /\ result = NoResult
    /\ idx = 1
    /\ traces = <<>>
    /\ max_distance = 0

\* One iteration of the loop of line 36
ProcessDriver ==
    /\ pc = "loop"
    /\ idx <= Len(args.drivers)
    /\ LET step == DriverStep(AlignerSession, args.drivers[idx], args.lap_number,
                              args.lap_type, max_distance, args.hash_seed)
           outcome == DriverOutcome(step)
       IN  IF outcome = "raise"
           THEN /\ pc' = "done"
                /\ result' = SpeedRaised
                /\ UNCHANGED <<args, idx, traces, max_distance>>
           ELSE /\ traces' = IF outcome = "append" THEN Append(traces, step.trace) ELSE traces
                /\ max_distance' = step.max_distance
                /\ idx' = idx + 1
                /\ UNCHANGED <<args, pc, result>>

\* Lines 119-153, after the last driver
ReturnTraces ==
    /\ pc = "loop"
    /\ idx > Len(args.drivers)
    /\ result' = SpeedResult(AlignerSession, traces, max_distance)
    /\ pc' = "done"
    /\ UNCHANGED <<args, idx, traces, max_distance>>

NextTraces == ProcessDriver \/ ReturnTraces

SpecTraces == InitTraces /\ [][NextTraces]_vars

\* ------------------------------------------------ speed-trace properties
\* The driver's iteration, taken on its own, yields a trace
SucceedsAlone(driver) ==
    DriverStep(AlignerSession, driver, args.lap_number, args.lap_type, 0, args.hash_seed).status
        = "ok"

\* The driver's iteration, taken on its own, ends in the handler of line 115
FailsAlone(driver) ==
    DriverStep(AlignerSession, driver, args.lap_number, args.lap_type, 0, args.hash_seed).status
        = "error"

TraceDrivers(trace_list) == [i \in DOMAIN trace_list |-> trace_list[i].driver]

DeltaAbsent(r) == "delta" \notin DOMAIN r \/ ~r.delta.some

\* C8: a driver whose processing fails never aborts the batch: every driver of
\* the list is processed, nothing is raised, and the result holds a trace for
\* exactly the drivers whose own processing succeeds, whatever came before them.
C8_FailureIsolation ==
    /\ pc = "done" =>
          /\ ~result.raised
          /\ idx = Len(args.drivers) + 1
          /\ TraceDrivers(result.traces) = SelectSeq(args.drivers, SucceedsAlone)
    /\ pc = "loop" => TraceDrivers(traces) = SelectSeq(SubSeq(args.drivers, 1, idx - 1), SucceedsAlone)

C8_Witness ==
    /\ pc = "done"
    /\ Len(args.drivers) = 3
    /\ FailsAlone(args.drivers[1])
    /\ ~SucceedsAlone(args.drivers[2]) /\ ~FailsAlone(args.drivers[2])
    /\ SucceedsAlone(args.drivers[3])
    /\ ~result.raised /\ TraceDrivers(result.traces) = <<args.drivers[3]>>

\* C9: the result carries a delta curve if exactly two drivers produced traces
\* (the curve of those two), and no delta for any other number of traces.
C9_DeltaIffTwoTraces ==
    pc = "done" =>
        /\ Len(result.traces) = 2 =>
              /\ "delta" \in DOMAIN result /\ result.delta.some
              /\ result.delta.val.driver1 = result.traces[1].driver
              /\ result.delta.val.driver2 = result.traces[2].driver
        /\ Len(result.traces) # 2 => DeltaAbsent(result)

C9_Witness ==
    /\ pc = "done"
    /\ Len(result.traces) = 2 /\ result.delta.some
    /\ result.traces[1].driver # result.traces[2].driver

\* Three traces, and no delta
C9_WitnessThree ==
    pc = "done" /\ Len(result.traces) = 3 /\ DeltaAbsent(result)

\* C10 as stated: called with a number of drivers different from 2, the result
\* has no delta.
C10_NoDeltaUnlessTwoDrivers ==
    (pc = "done" /\ Len(args.drivers) # 2) => DeltaAbsent(result)

\* Drivers of the list whose lap is selected but has no telemetry (the fetch
\* fails or the table is empty)
NoTelemetry(driver) ==
    LET driver_laps == pick_driver(AlignerSession, driver)
        selected == IF Len(driver_laps) = 0 THEN None
                    ELSE SelectLap(driver_laps, args.lap_number, args.lap_type)
    IN  /\ selected.some
        /\ \/ get_telemetry(selected.val).raised
           \/ empty(get_telemetry(selected.val).val)

\* C10 (amended): the delta is absent whenever the number of traces produced is
\* different from 2; called with 3 drivers of which exactly one has no telemetry
\* and the other two yield traces, the result holds 2 traces and their delta.
C10_NoDeltaUnlessTwoTraces ==
    pc = "done" =>
        /\ Len(result.traces) # 2 => DeltaAbsent(result)
        /\ (/\ Len(args.drivers) = 3
            /\ Cardinality({i \in 1..3 : NoTelemetry(args.drivers[i])}) = 1
            /\ Cardinality({i \in 1..3 : SucceedsAlone(args.drivers[i])}) = 2)
           => (Len(result.traces) = 2 /\ ~DeltaAbsent(result))

C10_Witness ==
    /\ pc = "done"
    /\ Len(args.drivers) = 3
    /\ Cardinality({i \in 1..3 : NoTelemetry(args.drivers[i])}) = 1
    /\ Len(result.traces) = 2 /\ ~DeltaAbsent(result)

\* C11: when no driver of the list yields a trace (the empty list included),
\* extract_speed_traces returns without raising the explicit empty result:
\* traces empty, max_distance 0 and a non-empty error message.
C11_EmptyResult ==
    (pc = "done" /\ \A i \in DOMAIN args.drivers : ~SucceedsAlone(args.drivers[i])) =>
        /\ ~result.raised
        /\ result.traces = <<>>
        /\ result.max_distance = 0
        /\ "error" \in DOMAIN result
        /\ result.error # ""

\* Three drivers, none with a trace, one of them failing after its distance
\* was seen
C11_Witness ==
    /\ pc = "done"
    /\ Len(args.drivers) = 3
    /\ \A i \in 1..3 : ~SucceedsAlone(args.drivers[i])
    /\ max_distance > 0
    /\ ~result.raised /\ result.traces = <<>> /\ result.max_distance = 0
    /\ "error" \in DOMAIN result

\* The empty driver list
C11_WitnessNoDrivers ==
    pc = "done" /\ args.drivers = <<>> /\ result.traces = <<>> /\ "error" \in DOMAIN result

\* The largest final distance among the traces, 0 for none
MaxOverTraces(trace_list) ==
    LET last == {trace_list[i].distance[Len(trace_list[i].distance)].v : i \in DOMAIN trace_list}
    IN  IF last = {} THEN 0 ELSE CHOOSE m \in last : \A x \in last : x <= m

\* C12: the max_distance returned is the maximum distance over exactly the
\* drivers whose traces are in the result; a driver that was skipped or whose
\* processing failed contributes nothing to it.
C12_MaxDistanceOfTraces ==
    pc = "done" => result.max_distance = MaxOverTraces(result.traces)

\* ------------------------------------------------ lap-selection specification
\* The laps a driver's lap list is drawn from: a lap number, and a lap time
\* that is missing, 82.5 s or 83.456 s
SelectionLaps ==
    {MkLap(Num(k), t, Raise) : k \in 1..MaxLaps, t \in {NaT, Td(825000), Td(834560)}}

\* The lap at position p carries a table whose distance ends at p
WithTraceTable(laps) ==
    [p \in DOMAIN laps |-> [laps[p] EXCEPT !.telemetry = Ok(TraceTable(<<0, p>>, <<2, 3>>))]]

\* The session with the given lap list for VER
LapsSession(laps) == [AlignerSession EXCEPT !.laps = ("VER" :> laps)]

LapTypes == {"fastest", "first", "specific"}

InitLaps ==
    /\ \E len \in 0..MaxLaps :
           \E laps \in [1..len -> SelectionLaps],
              lap_number \in Options(1..(MaxLaps + 1)), lap_type \in LapTypes :
               args = [laps |-> WithTraceTable(laps), driver |-> "VER",
                       lap_number |-> lap_number, lap_type |-> lap_type, hash_seed |-> 7]
    /\ pc = "call"
    /\ result = NoResult
    /\ idx = 0
    /\ traces = <<>>
    /\ max_distance = 0

\* One iteration of the loop of line 36, for one driver's lap list
SelectAndExtract ==
    /\ pc = "call"
    /\ result' = DriverStep(LapsSession(args.laps), args.driver, args.lap_number,
                            args.lap_type, 0, args.hash_seed)
    /\ pc' = "done"
    /\ UNCHANGED <<args, idx, traces, max_distance>>

NextLaps == SelectAndExtract

SpecLaps == InitLaps /\ [][NextLaps]_vars

\* ------------------------------------------------ lap-selection properties
\* The position, in the driver's lap list, of the lap the trace was taken from
ChosenPosition == result.trace.distance[2].v

NoneFound == result.status = "skip"

\* Positions of the laps carrying lap number n
PositionsNumbered(n) == {p \in DOMAIN args.laps : args.laps[p].LapNumber.v = n}

\* Positions of the laps that have a lap time
PositionsTimed == {p \in DOMAIN args.laps : args.laps[p].LapTime.kind = "td"}

\* C13: a lap number that is given takes precedence over the mode: the lap
\* selected is a lap of the driver with exactly that number, and when the driver
\* has no such lap the outcome is "none found" (no trace), with no fallback to
\* the fastest or the first lap.
C13_ExplicitLapNumber ==
    (pc = "done" /\ args.lap_number.some) =>
        IF PositionsNumbered(args.lap_number.val) = {}
        THEN NoneFound
        ELSE /\ result.status = "ok"
             /\ result.trace.lap_number = args.lap_number.val
             /\ ChosenPosition \in PositionsNumbered(args.lap_number.val)

\* Mode "fastest", and the numbered lap is not the fastest one
C13_Witness ==
    /\ pc = "done" /\ args.lap_number.some /\ args.lap_type = "fastest"
    /\ result.status = "ok" /\ ChosenPosition = 2
    /\ args.laps[2].LapTime = NaT /\ args.laps[1].LapTime.kind = "td"

\* No lap with the number, though the driver has timed laps
C13_WitnessNoMatch ==
    /\ pc = "done" /\ args.lap_number.some
    /\ PositionsNumbered(args.lap_number.val) = {} /\ PositionsTimed # {}
    /\ NoneFound

\* C14: in mode "fastest" without a lap number, laps without a lap time are
\* excluded, the lap selected has the minimum lap time of the others, the first
\* of them in the lap list on a tie, and a driver with no timed lap (or no lap)
\* gives "none found".
C14_FastestLap ==
    (pc = "done" /\ ~args.lap_number.some /\ args.lap_type = "fastest") =>
        IF PositionsTimed = {}
        THEN NoneFound
        ELSE /\ result.status = "ok"
             /\ ChosenPosition \in PositionsTimed
             /\ \A q \in PositionsTimed :
                    /\ args.laps[ChosenPosition].LapTime.v <= args.laps[q].LapTime.v
                    /\ args.laps[q].LapTime.v = args.laps[ChosenPosition].LapTime.v
                           => ChosenPosition <= q

\* Two laps with the same lap time: the first is selected
C14_Witness ==
    /\ pc = "done" /\ ~args.lap_number.some /\ args.lap_type = "fastest"
    /\ Len(args.laps) = 2
    /\ args.laps[1].LapTime = Td(825000) /\ args.laps[2].LapTime = Td(825000)
    /\ result.status = "ok" /\ ChosenPosition = 1

\* A first lap without a lap time is passed over
C14_WitnessUntimedFirst ==
    /\ pc = "done" /\ ~args.lap_number.some /\ args.lap_type = "fastest"
    /\ Len(args.laps) = 2 /\ args.laps[1].LapTime = NaT
    /\ result.status = "ok" /\ ChosenPosition = 2

CompareRaised == [raised |-> TRUE]

\* Truth value of lap_meta.lap_time_seconds: None and 0.0 are false
TimeTruthy(lap_meta) == lap_meta.lap_time_seconds.some /\ lap_meta.lap_time_seconds.val # 0

\* Lines 190-193: the difference of the lap times, when all four tests pass
DeltaTime(lap1_meta, lap2_meta) ==
    IF lap1_meta.some /\ lap2_meta.some /\ TimeTruthy(lap1_meta.val) /\ TimeTruthy(lap2_meta.val)
    THEN Some(lap1_meta.val.lap_time_seconds.val - lap2_meta.val.lap_time_seconds.val)
    ELSE None

\* compare_drivers_telemetry giving up on the second driver when the first
\* one's lap is not found
compare_drivers_telemetry_FirstFailureStops(f1_session, driver1, driver2, lap_number) ==
    LET lap1 == extract_lap_telemetry(f1_session, driver1, lap_number)
        lap2 == extract_lap_telemetry(f1_session, driver2, lap_number)
    IN  IF lap1.raised \/ lap2.raised
        THEN CompareRaised
        ELSE IF ~lap1.lap_meta.some \/ ~lap1.telemetry.some
        THEN [raised |-> FALSE, lap1_meta |-> lap1.lap_meta, telem1 |-> lap1.telemetry,
              lap2_meta |-> None, telem2 |-> None, delta_time |-> None]
        ELSE [raised |-> FALSE, lap1_meta |-> lap1.lap_meta, telem1 |-> lap1.telemetry,
              lap2_meta |-> lap2.lap_meta, telem2 |-> lap2.telemetry,
              delta_time |-> DeltaTime(lap1.lap_meta, lap2.lap_meta)]

\* Lines 185-199: an exception of either lookup is logged and raised again
compare_drivers_telemetry(f1_session, driver1, driver2, lap_number) ==
    LET lap1 == extract_lap_telemetry(f1_session, driver1, lap_number)
        lap2 == extract_lap_telemetry(f1_session, driver2, lap_number)
    IN  IF lap1.raised \/ lap2.raised
        THEN CompareRaised
        ELSE [raised |-> FALSE, lap1_meta |-> lap1.lap_meta, telem1 |-> lap1.telemetry,
              lap2_meta |-> lap2.lap_meta, telem2 |-> lap2.telemetry,
              delta_time |-> DeltaTime(lap1.lap_meta, lap2.lap_meta)]

\* ------------------------------------------------ comparator specification
\* Lap times of the compared laps: missing, 0 s, 80.0 s and 82.5 s
CompareLapTimes == {NaT, Td(0), Td(800000), Td(825000)}

\* A one-row table whose Speed cell is no number
MalformedTable ==
    MkTable(1, Some(<<Td(0)>>), Channels \ OptionalChannels, "Speed", Some(<<Bad>>))

EmptyTable == MkTable(0, Some(<<>>), Channels \ OptionalChannels, "Speed", Some(<<>>))

\* What get_telemetry() gives for a compared lap: a failure, a clean table, a
\* malformed one, an empty one
CompareTelemetry == {Raise, Ok(CleanTable(2, 1)), Ok(MalformedTable), Ok(EmptyTable)}

\* A driver's lap list: no laps, or lap 10
CompareLapLists ==
    {<<>>} \cup {<<MkLap(Num(10), t, tel)>> : t \in CompareLapTimes, tel \in CompareTelemetry}

InitCompare ==
    /\ \E ver \in CompareLapLists, lec \in CompareLapLists,
          driver1 \in {"VER", "LEC", "HAM"}, driver2 \in {"VER", "LEC", "HAM"},
          lap_number \in {10, 11} :
           args = [f1_session |-> Session([VER |-> ver, LEC |-> lec]),
                   driver1 |-> driver1, driver2 |-> driver2, lap_number |-> lap_number]
    /\ pc = "call"
    /\ result = NoResult
    /\ idx = 0
    /\ traces = <<>>
    /\ max_distance = 0

CompareDrivers ==
    /\ pc = "call"
    /\ result' = compare_drivers_telemetry(args.f1_session, args.driver1, args.driver2,
                                           args.lap_number)
    /\ pc' = "done"
    /\ UNCHANGED <<args, idx, traces, max_distance>>

NextCompare == CompareDrivers

SpecCompare == InitCompare /\ [][NextCompare]_vars

\* ------------------------------------------------ comparator properties
\* The summary carries a lap time
HasLapTime(lap_meta) == lap_meta.some /\ lap_meta.val.lap_time_seconds.some

\* C16: delta_time is (lap time of driver 1) - (lap time of driver 2) whenever
\* both summaries carry a lap time, for every lap-time value, and it is None
\* exactly when at least one of the two lap times is absent.
C16_DeltaIsDifference ==
    (pc = "done" /\ ~result.raised) =>
        IF HasLapTime(result.lap1_meta) /\ HasLapTime(result.lap2_meta)
        THEN /\ result.delta_time.some
             /\ result.delta_time.val = result.lap1_meta.val.lap_time_seconds.val
                                          - result.lap2_meta.val.lap_time_seconds.val
        ELSE ~result.delta_time.some

\* One driver's lookup on its own
Alone(driver) == extract_lap_telemetry(args.f1_session, driver, args.lap_number)

\* The lookup gives no summary or no telemetry
LookupFails(driver) == ~Alone(driver).lap_meta.some \/ ~Alone(driver).telemetry.some

\* C17: the two lookups are independent: nothing is raised, and each driver's
\* summary and telemetry in the result are those of that driver's own lookup,
\* whether or not the other driver's lookup failed (driver or lap not found,
\* telemetry unavailable, or an error while extracting the lap).
C17_IndependentLookups ==
    pc = "done" =>
        /\ ~result.raised
        /\ result.lap1_meta = Alone(args.driver1).lap_meta
        /\ result.telem1 = Alone(args.driver1).telemetry
        /\ result.lap2_meta = Alone(args.driver2).lap_meta
        /\ result.telem2 = Alone(args.driver2).telemetry

\* The first driver is not found, the second has summary and telemetry
C17_Witness ==
    /\ pc = "done" /\ ~result.raised
    /\ ~Alone(args.driver1).lap_meta.some
    /\ result.lap2_meta.some /\ result.telem2.some

\* The first driver's table is malformed, the second has summary and telemetry
C17_WitnessMalformed ==
    /\ pc = "done" /\ ~result.raised
    /\ args.driver1 = "VER" /\ args.lap_number = 10
    /\ Len(args.f1_session.laps["VER"]) = 1
    /\ args.f1_session.laps["VER"][1].telemetry = Ok(MalformedTable)
    /\ result.lap1_meta.some /\ ~result.telem1.some
    /\ result.lap2_meta.some /\ result.telem2.some

\* The scenario of the two lap times 80.0 s and 82.5 s: a delta of -2.5 s
C16_Scenario ==
    /\ pc = "done" /\ ~result.raised
    /\ HasLapTime(result.lap1_meta) /\ HasLapTime(result.lap2_meta)
    /\ result.lap1_meta.val.lap_time_seconds.val = 80 * TicksPerSecond
    /\ result.lap2_meta.val.lap_time_seconds.val = 825000
    /\ result.delta_time = Some(-25000)

\* ------------------------------------------------ delta-curve properties
RECURSIVE GCD(_, _)
GCD(a, b) == IF b = 0 THEN a ELSE GCD(b, a % b)

Abs(n) == IF n < 0 THEN -n ELSE n

\* Two rationals are the same number: equal in lowest terms
Lowest(r) ==
    LET g == GCD(Abs(r.num), r.den)
    IN  Rat(r.num \div g, r.den \div g)

SameRat(a, b) == Lowest(a) = Lowest(b)

\* C18: a delta curve that is computed has exactly 200 grid points and 200
\* delta values whatever the sample counts of the two traces, and its grid is
\* evenly spaced from 0 to the max_distance of the result.
C18_DeltaGrid ==
    (pc = "done" /\ ~DeltaAbsent(result)) =>
        LET grid == result.delta.val.distance
        IN  /\ Len(grid) = 200
            /\ Len(result.delta.val.delta) = 200
            /\ SameRat(grid[1], Rat(0, 1))
            /\ SameRat(grid[200], Rat(result.max_distance, 1))
            /\ \A i \in 1..198 :
                   SameRat(RatSub(grid[i + 1], grid[i]), RatSub(grid[i + 2], grid[i + 1]))

\* Traces of 3 and of 2 samples
C18_Witness ==
    /\ pc = "done" /\ ~DeltaAbsent(result)
    /\ Len(result.traces[1].distance) = 3 /\ Len(result.traces[2].distance) = 2
    /\ Len(result.delta.val.delta) = 200
    /\ result.max_distance > 0

\* A distance sequence that goes up at every sample
Increasing(distance) ==
    \A i \in 1..(Len(distance) - 1) : distance[i].v < distance[i + 1].v

\* The speed of a trace at distance x: on the line through the two samples
\* around x, and the first or last speed outside the trace's distances
Resampled(x, trace) ==
    LET d == Values(trace.distance)
        s == Values(trace.speed)
        n == Len(d)
    IN  IF x.num <= d[1] * x.den THEN Rat(s[1], 1)
        ELSE IF x.num >= d[n] * x.den THEN Rat(s[n], 1)
        ELSE LET j == CHOOSE k \in 1..(n - 1) : d[k] * x.den <= x.num /\ x.num < d[k + 1] * x.den
             IN  Rat(s[j] * (d[j + 1] - d[j]) * x.den + (s[j + 1] - s[j]) * (x.num - d[j] * x.den),
                     (d[j + 1] - d[j]) * x.den)

\* C19: at every grid point of a computed delta curve (of two traces with
\* increasing distances), delta[i] is the first trace's speed minus the second
\* trace's speed, each linearly interpolated in the trace's own samples and
\* held at the boundary speed outside the trace's distance range.
C19_DeltaIsSpeedDifference ==
    (/\ pc = "done" /\ ~DeltaAbsent(result)
     /\ Increasing(result.traces[1].distance) /\ Increasing(result.traces[2].distance)) =>
        \A i \in 1..Len(result.delta.val.delta) :
            SameRat(result.delta.val.delta[i],
                    RatSub(Resampled(result.delta.val.distance[i], result.traces[1]),
                           Resampled(result.delta.val.distance[i], result.traces[2])))

\* The second trace ends at distance 8, before the grid does: at the last grid
\* point its speed is the one it has at 8
C19_Witness ==
    /\ pc = "done" /\ ~DeltaAbsent(result)
    /\ Increasing(result.traces[1].distance) /\ Increasing(result.traces[2].distance)
    /\ result.traces[2].distance[Len(result.traces[2].distance)].v = 8
    /\ result.traces[1].distance[Len(result.traces[1].distance)].v = result.max_distance
    /\ result.max_distance > 8
    /\ result.traces[2].speed[Len(result.traces[2].speed)].v = 6
    /\ SameRat(result.delta.val.delta[200],
               Rat(result.traces[1].speed[Len(result.traces[1].speed)].v - 6, 1))

\* The distance sequence is empty or goes down somewhere
BadDistance(distance) ==
    \/ Len(distance) = 0
    \/ \E i \in 1..(Len(distance) - 1) : distance[i].v > distance[i + 1].v

\* C20: with exactly two traces of which one has an empty or non-monotonic
\* distance sequence, the delta of the result is None as a whole, and the two
\* traces and max_distance are still returned.
C20_BadDistanceNoDelta ==
    (/\ pc = "done" /\ Len(result.traces) = 2
     /\ (BadDistance(result.traces[1].distance) \/ BadDistance(result.traces[2].distance))) =>
        /\ ~result.raised
        /\ "delta" \in DOMAIN result /\ ~result.delta.some
        /\ "max_distance" \in DOMAIN result

\* ------------------------------------------------ lap-metadata specification
\* Lap numbers of a lap record: 10, NaN, the string 'n/a', no such field
MetaLapNumbers == <<Num(10), NaN, Bad, Absent>>

\* Durations in ticks of 0.1 ms, around the places where the formatter rounds
\* or carries; none ends in 5 (a tie is rounded by the float's binary expansion)
FormatTimes ==
    <<0, 4, 6, 9994, 599994, 599996, 600000, 834560, 1199996, 1200004, 36599999>>

\* Lap times of a lap record: the durations, NaT, no such field, a plain number
MetaLapTimes ==
    [i \in 1..Len(FormatTimes) |-> Td(FormatTimes[i])] \o <<NaT, Absent, Num(834560)>>

MetaSectors == <<Td(251000), NaT, Absent>>

MetaCompounds == <<Str(2), NaN, Absent>>

MetaFlags == <<Bool(TRUE), Bool(FALSE), NaN, Absent>>

InitMeta ==
    /\ \E n \in DOMAIN MetaLapNumbers, t \in DOMAIN MetaLapTimes,
          s1 \in 1..2, s2 \in DOMAIN MetaSectors, s3 \in 1..2,
          c \in DOMAIN MetaCompounds, f \in DOMAIN MetaFlags :
           args = [lap |-> [LapNumber |-> MetaLapNumbers[n], LapTime |-> MetaLapTimes[t],
                            Sector1Time |-> MetaSectors[s1], Sector2Time |-> MetaSectors[s2],
                            Sector3Time |-> MetaSectors[s3], Compound |-> MetaCompounds[c],
                            IsPersonalBest |-> MetaFlags[f]],
                   driver |-> "VER"]
    /\ pc = "call"
    /\ result = NoResult
    /\ idx = 0
    /\ traces = <<>>
    /\ max_distance = 0

ExtractLapMetadata ==
    /\ pc = "call"
    /\ result' = _extract_lap_metadata(args.lap, args.driver)
    /\ pc' = "done"
    /\ UNCHANGED <<args, idx, traces, max_distance>>

NextMeta == ExtractLapMetadata

SpecMeta == InitMeta /\ [][NextMeta]_vars

\* ------------------------------------------------ lap-metadata properties
\* C21: in every summary produced, lap_time_seconds and lap_time_str are both
\* present or both None: present (the duration in seconds) for a duration-typed
\* lap time, None (not zero) for a lap time that is absent or missing.
C21_LapTimeFieldsTogether ==
    (pc = "done" /\ ~result.raised) =>
        LET m == result.val
            t == args.lap.LapTime
        IN  /\ m.lap_time_seconds.some <=> m.lap_time_str.some
            /\ t.kind = "td" => (m.lap_time_seconds = Some(t.v) /\ m.lap_time_str.some)
            /\ t.kind \in {"nat", "absent"} =>
                   (m.lap_time_seconds = None /\ m.lap_time_str = None)

\* A lap whose lap time is NaT: both fields are None
C21_Witness ==
    /\ pc = "done" /\ ~result.raised
    /\ args.lap.LapTime = NaT
    /\ result.val.lap_time_seconds = None /\ result.val.lap_time_str = None

\* A lap with a duration: both fields are present
C21_WitnessTimed ==
    /\ pc = "done" /\ ~result.raised
    /\ args.lap.LapTime = Td(834560)
    /\ result.val.lap_time_seconds = Some(834560)
    /\ result.val.lap_time_str = Some([minutes |-> 1, ss |-> 23, mmm |-> 456])

\* "M:SS.mmm" read back as minutes * 60 + seconds, in ticks
ParseLapTime(text) == (text.minutes * 60000 + text.ss * 1000 + text.mmm) * 10

\* C22: for a duration-typed lap time t the string is M:SS.mmm with SS in
\* 00..59 and three decimals, and minutes * 60 + seconds read back from it is t
\* within 1 ms.
C22_FormatRoundTrip ==
    (pc = "done" /\ ~result.raised /\ args.lap.LapTime.kind = "td") =>
        LET text == result.val.lap_time_str.val
            t    == args.lap.LapTime.v
        IN  /\ text.minutes >= 0
            /\ text.ss \in 0..59
            /\ text.mmm \in 0..999
            /\ ParseLapTime(text) - t \in -10..10

\* C23: a summary is produced for every lap record with a numeric lap number,
\* whichever optional fields are missing, each sector converted on its own; the
\* extraction fails, with no summary, exactly when the lap number is missing or
\* not a number.
C23_OnlyLapNumberRequired ==
    pc = "done" =>
        LET lap == args.lap
        IN  /\ result.raised <=> lap.LapNumber.kind # "num"
            /\ ~result.raised =>
                   /\ result.val.lap_number = lap.LapNumber.v
                   /\ result.val.sector_1_time =
                          IF lap.Sector1Time.kind = "td" THEN Some(lap.Sector1Time.v) ELSE None
                   /\ result.val.sector_2_time =
                          IF lap.Sector2Time.kind = "td" THEN Some(lap.Sector2Time.v) ELSE None
                   /\ result.val.sector_3_time =
                          IF lap.Sector3Time.kind = "td" THEN Some(lap.Sector3Time.v) ELSE None
                   /\ result.val.compound.some <=> lap.Compound.kind = "str"

\* Every optional field but sector 3 is missing, and the summary is produced
C23_Witness ==
    /\ pc = "done" /\ ~result.raised
    /\ args.lap.LapTime = Absent /\ args.lap.Sector1Time = NaT /\ args.lap.Sector2Time = Absent
    /\ args.lap.Compound = NaN /\ args.lap.IsPersonalBest.kind = "absent"
    /\ result.val.sector_1_time = None /\ result.val.sector_2_time = None
    /\ result.val.sector_3_time = Some(251000)

\* The lap number is NaN, and the extraction fails
C23_WitnessFails ==
    pc = "done" /\ args.lap.LapNumber = NaN /\ result.raised

\* C24: is_personal_best is False whenever the lap record carries no
\* personal-best value (no such field, or a missing value), and the record's
\* boolean flag otherwise.
C24_PersonalBestDefault ==
    (pc = "done" /\ ~result.raised) =>
        LET flag == args.lap.IsPersonalBest
        IN  /\ flag.kind \in {"absent", "nan"} => result.val.is_personal_best = FALSE
            /\ flag.kind = "bool" => result.val.is_personal_best = flag.v

\* ------------------------------------------------ display-colour specification
\* Team names: known teams in mixed case, names holding two known names, names
\* holding none, the empty name
ColorTeams ==
    <<<<"R", "e", "d", " ", "B", "u", "l", "l", " ", "R", "a", "c", "i", "n", "g">>,
      <<"S", "c", "u", "d", "e", "r", "i", "a", " ", "F", "e", "r", "r", "a", "r", "i">>,
      <<"M", "c", "L", "a", "r", "e", "n">>,
      <<"M", "c", "L", "a", "r", "e", "n", " ", "M", "e", "r", "c", "e", "d", "e", "s">>,
      <<"A", "s", "t", "o", "n", " ", "M", "a", "r", "t", "i", "n", " ", "A", "r", "a", "m", "c", "o", " ", "M", "e", "r", "c", "e", "d", "e", "s">>,
      <<"K", "I", "C", "K", " ", "S", "A", "U", "B", "E", "R">>,
      <<"V", "i", "s", "a", " ", "C", "a", "s", "h", " ", "A", "p", "p", " ", "R", "B">>,
      <<"H", "a", "a", "s", " ", "F", "1", " ", "T", "e", "a", "m">>,
      <<"R", "a", "c", "i", "n", "g", " ", "B", "u", "l", "l", "s">>,
      <<"T", "o", "r", "o", " ", "R", "o", "s", "s", "o">>,
      <<"U", "n", "k", "n", "o", "w", "n">>,
      <<>>>>

\* One process: its hash seed is fixed when it starts, and _get_team_color is
\* called for one team and driver, twice
InitColor ==
    /\ \E t \in DOMAIN ColorTeams, driver \in DriverCodes, seed \in {7, 11} :
           args = [team |-> ColorTeams[t], driver |-> driver, hash_seed |-> seed]
    /\ pc = "call"
    /\ result = [colors |-> <<>>]
    /\ idx = 0
    /\ traces = <<>>
    /\ max_distance = 0

GetTeamColor ==
    /\ pc = "call"
    /\ result' = [colors |-> Append(result.colors,
                                    _get_team_color(args.team, args.driver, args.hash_seed))]
    /\ pc' = IF Len(result.colors) = 1 THEN "done" ELSE "call"
    /\ UNCHANGED <<args, idx, traces, max_distance>>

NextColor == GetTeamColor

SpecColor == InitColor /\ [][NextColor]_vars

\* ------------------------------------------------ display-colour properties
\* Table entries whose team name the team name contains, case-insensitively
KnownIn(team) == {k \in DOMAIN team_colors : Contains(lower(team), team_colors[k][1])}

\* '#' and six hexadecimal digits
WellFormedColor(color) ==
    /\ Len(color) = 7
    /\ color[1] = "#"
    /\ \A i \in 2..7 : \E d \in DOMAIN HexDigits : color[i] = HexDigits[d]

\* C25: within one process the colour is deterministic: a team name containing
\* a known team name (case-insensitively, as a substring) gets the colour of
\* the table, that of the first entry it contains; with no known name in it the
\* colour is '#' and six hex digits and depends on the driver code only, so
\* two calls for the same driver give the same colour.
C25_ColorDeterministic ==
    \A i \in DOMAIN result.colors :
        LET color == result.colors[i]
            known == KnownIn(args.team)
        IN  /\ color = result.colors[1]
            /\ known # {} =>
                   /\ \E k \in known : color = team_colors[k][2]
                   /\ \A k \in known : (\A j \in known : k <= j) => color = team_colors[k][2]
            /\ known = {} =>
                   /\ WellFormedColor(color)
                   /\ \A t \in DOMAIN ColorTeams :
                          KnownIn(ColorTeams[t]) = {} =>
                              _get_team_color(ColorTeams[t], args.driver, args.hash_seed) = color

\* Two calls for a team without a known name: the same well-formed colour
C25_Witness ==
    /\ pc = "done" /\ Len(result.colors) = 2
    /\ KnownIn(args.team) = {}
    /\ WellFormedColor(result.colors[1]) /\ result.colors[1] = result.colors[2]

\* An upper-case team name holding two known names gets the first one's colour
C25_WitnessKnown ==
    /\ pc = "done"
    /\ Cardinality(KnownIn(args.team)) = 2
    /\ lower(args.team) # args.team
    /\ result.colors[2] = <<"#", "0", "0", "E", "7", "0", "1">>

\* ------------------------------------------------ get_fastest_lap
\* get_fastest_lap taking the minimum over all laps, a missing lap time first
get_fastest_lap_AllLaps(f1_session, driver) ==
    LET driver_laps == pick_driver(f1_session, driver)
    IN  IF Len(driver_laps) = 0 THEN None
        ELSE LET number == LapNumberInt(driver_laps[idxmin(driver_laps)])
             IN  IF number.raised THEN None ELSE Some(number.val)

\* Lines 213-225.  idxmin() skips the missing lap times; with none left it
\* gives NaN or fails, and .loc[NaN] fails: every failure ends in the handler
\* of lines 223-225, which returns None
get_fastest_lap(f1_session, driver) ==
    LET driver_laps == pick_driver(f1_session, driver)
        valid_laps  == ValidLaps(driver_laps)
    IN  IF Len(driver_laps) = 0 THEN None
        ELSE IF Len(valid_laps) = 0 THEN None
        ELSE LET number == LapNumberInt(valid_laps[idxmin(valid_laps)])
             IN  IF number.raised THEN None ELSE Some(number.val)

\* ------------------------------------------------ fastest-lap specification
\* The laps of SelectionLaps and a timed lap whose lap number is missing
FastestLaps == SelectionLaps \cup {MkLap(NaN, Td(800000), Raise)}

InitFastest ==
    /\ \E len \in 0..MaxLaps :
           \E laps \in [1..len -> FastestLaps] :
               args = [laps |-> WithTraceTable(laps), driver |-> "VER", hash_seed |-> 7]
    /\ pc = "call"
    /\ result = NoResult
    /\ idx = 0
    /\ traces = <<>>
    /\ max_distance = 0

\* The fastest-lap query
GetFastestLap ==
    /\ pc = "call"
    /\ result' = [fastest |-> get_fastest_lap(LapsSession(args.laps), args.driver)]
    /\ pc' = "select"
    /\ UNCHANGED <<args, idx, traces, max_distance>>

\* The aligner's iteration for the same driver, mode 'fastest', no lap number
AlignFastest ==
    /\ pc = "select"
    /\ traces' = <<DriverStep(LapsSession(args.laps), args.driver, None, "fastest", 0,
                              args.hash_seed)>>
    /\ pc' = "done"
    /\ UNCHANGED <<args, result, idx, max_distance>>

NextFastest == GetFastestLap \/ AlignFastest

SpecFastest == InitFastest /\ [][NextFastest]_vars

\* ------------------------------------------------ fastest-lap properties
\* The first position holding the minimum lap time among the timed laps
FirstFastest ==
    CHOOSE p \in PositionsTimed :
        \A q \in PositionsTimed :
            /\ args.laps[p].LapTime.v <= args.laps[q].LapTime.v
            /\ args.laps[q].LapTime.v = args.laps[p].LapTime.v => p <= q

\* C26: get_fastest_lap never raises and agrees with the aligner's 'fastest'
\* selection on every lap list: it returns the lap number of the first lap of
\* minimum lap time among the laps that have one, and None for a driver without
\* laps or without a timed lap.
C26_FastestLapAgrees ==
    /\ pc \in {"select", "done"} =>
           IF PositionsTimed = {}
           THEN result.fastest = None
           ELSE args.laps[FirstFastest].LapNumber.kind = "num" =>
                    result.fastest = Some(args.laps[FirstFastest].LapNumber.v)
    /\ pc = "done" =>
           LET step == traces[1]
           IN  /\ result.fastest.some <=> step.status = "ok"
               /\ step.status = "ok" =>
                      /\ result.fastest.val = step.trace.lap_number
                      /\ step.trace.distance[2].v = FirstFastest

\* An untimed lap at the head of the list: the query and the aligner both pass
\* it over
C26_Witness ==
    /\ pc = "done" /\ Len(args.laps) = MaxLaps
    /\ args.laps[1].LapTime = NaT
    /\ args.laps[1].LapNumber.v # args.laps[2].LapNumber.v
    /\ result.fastest = Some(args.laps[2].LapNumber.v)
    /\ traces[1].status = "ok" /\ traces[1].trace.lap_number = result.fastest.val

\* A driver whose laps all lack a lap time: None, and no trace
C26_WitnessUntimed ==
    /\ pc = "done" /\ Len(args.laps) > 0 /\ PositionsTimed = {}
    /\ result.fastest = None /\ traces[1].status = "skip"

\* ------------------------------------------------ trace-order properties
\* seq[i..] can be read off list[j..] from left to right, skipping entries
RECURSIVE SubsequenceFrom(_, _, _, _)
SubsequenceFrom(seq, i, list, j) ==
    IF i > Len(seq) THEN TRUE
    ELSE IF j > Len(list) THEN FALSE
    ELSE IF seq[i] = list[j] THEN SubsequenceFrom(seq, i + 1, list, j + 1)
    ELSE SubsequenceFrom(seq, i, list, j + 1)

\* The lap number of the lap selected for the driver
SelectedLapNumber(driver) ==
    SelectLap(pick_driver(AlignerSession, driver), args.lap_number, args.lap_type).val.LapNumber.v

\* C27: the traces of a result follow the order of their drivers in the input
\* list, at most one per entry of the list, each with the lap number of the lap
\* selected for its driver; a delta that is computed names the first trace's
\* driver as driver1 and the second's as driver2 and is the first trace's speed
\* minus the second's.
C27_TraceOrder ==
    /\ SubsequenceFrom(TraceDrivers(traces), 1, SubSeq(args.drivers, 1, idx - 1), 1)
    /\ pc = "done" =>
           /\ result.traces = traces
           /\ SubsequenceFrom(TraceDrivers(result.traces), 1, args.drivers, 1)
           /\ \A i \in DOMAIN result.traces :
                  result.traces[i].lap_number = SelectedLapNumber(result.traces[i].driver)
           /\ ~DeltaAbsent(result) =>
                  /\ result.delta.val.driver1 = result.traces[1].driver
                  /\ result.delta.val.driver2 = result.traces[2].driver
                  /\ (Increasing(result.traces[1].distance)
                         /\ Increasing(result.traces[2].distance)) =>
                         \A i \in {1, 100, 200} :
                             SameRat(result.delta.val.delta[i],
                                     RatSub(Resampled(result.delta.val.distance[i],
                                                      result.traces[1]),
                                            Resampled(result.delta.val.distance[i],
                                                      result.traces[2])))

\* Three drivers, the middle one without a trace: the delta is the first
\* driver's speed minus the third's, -2 at the end of the grid
C27_Witness ==
    /\ pc = "done" /\ Len(args.drivers) = 3
    /\ TraceDrivers(result.traces) = <<args.drivers[1], args.drivers[3]>>
    /\ args.drivers[1] # args.drivers[3]
    /\ ~DeltaAbsent(result)
    /\ result.delta.val.driver1 = args.drivers[1] /\ result.delta.val.driver2 = args.drivers[3]
    /\ SameRat(result.delta.val.delta[200], Rat(-2, 1))

====
